---- MODULE Spec2Model ----
(***************************************************************************)
(* A model of vpk-rs: the directory-file loader VPK::read (src/src/vpk.rs), *)
(* the index key shapes of src/src/access.rs and src/src/vpk.rs, and the    *)
(* byte retrieval of src/src/entry.rs.                                     *)
(*                                                                         *)
(* Strings and buffers are sequences of byte values 0..255.  A hasher is   *)
(* modelled by the sequence of bytes written to it: two keys hash alike    *)
(* exactly when they write the same bytes.                                 *)
(***************************************************************************)
EXTENDS Integers, Sequences, FiniteSets, TLC

(***************************************************************************)
(* Bounds of the model                                                     *)
(***************************************************************************)
\* longest directory prefix of a query key
MaxPrefixLen == 1
\* longest (big) filename of a query key
MaxBigLen == 3
\* longest directory of a stored key
MaxDirLen == 3
\* longest filename of a stored key
MaxNameLen == 1

(***************************************************************************)
(* Byte strings                                                            *)
(***************************************************************************)
\* b'/' (access.rs:193, 213)
SLASH == 47
\* the separator byte written after each hashed component (access.rs:28)
SEP == 255

\* the bytes the key inputs are drawn from: 'a', 'A', '/'
KeyBytes == {97, 65, SLASH}

RECURSIVE StrUpTo(_, _)
\* every string over alphabet S of length at most n
StrUpTo(S, n) ==
    IF n = 0 THEN {<<>>}
    ELSE LET shorter == StrUpTo(S, n - 1)
         IN  shorter \cup {Append(s, c) : s \in {t \in shorter : Len(t) = n - 1}, c \in S}

\* u8::to_ascii_lowercase
to_ascii_lowercase(b) == IF b \in 65..90 THEN b + 32 ELSE b

\* [u8]::to_ascii_lowercase / str::to_ascii_lowercase
str_to_ascii_lowercase(s) == [i \in 1..Len(s) |-> to_ascii_lowercase(s[i])]

\* [u8]::eq_ignore_ascii_case
eq_ignore_ascii_case(a, b) ==
    /\ Len(a) = Len(b)
    /\ \A i \in 1..Len(a) : to_ascii_lowercase(a[i]) = to_ascii_lowercase(b[i])

\* the Option returned by the std helpers below
None == [some |-> FALSE]
Some(v) == [some |-> TRUE, v |-> v]

\* str::rsplit_once('/'): the parts before and after the last '/'
rsplit_once(s) ==
    LET at == {i \in 1..Len(s) : s[i] = SLASH}
    IN  IF at = {} THEN None
        ELSE LET i == CHOOSE j \in at : \A k \in at : k <= j
             IN  Some(<<SubSeq(s, 1, i - 1), SubSeq(s, i + 1, Len(s))>>)

\* [u8]::strip_prefix(b"/")
strip_prefix(s) ==
    IF Len(s) > 0 /\ s[1] = SLASH THEN Some(SubSeq(s, 2, Len(s))) ELSE None

(***************************************************************************)
(* src/src/access.rs: the stored key and the four query shapes             *)
(***************************************************************************)
\* hash_bytes: the bytes written for a slice, one write_u8 each
hash_bytes(bytes) == bytes

\* hash_bytes_as_lowercase
hash_bytes_as_lowercase(bytes) == [i \in 1..Len(bytes) |-> to_ascii_lowercase(bytes[i])]

\* hash_str
hash_str(s) == hash_bytes(s) \o <<SEP>>

\* hash_str_as_lowercase
hash_str_as_lowercase(s) == hash_bytes_as_lowercase(s) \o <<SEP>>

\* DirFile::new: a key is the shared data and two ranges start..end into it
DirFile_new(data, dir, filename) == [data |-> data, dir |-> dir, filename |-> filename]

\* Range::len
Range_len(r) == IF r[2] > r[1] THEN r[2] - r[1] ELSE 0

\* DirFile::dir
DirFile_dir(k) == SubSeq(k.data, k.dir[1] + 1, k.dir[2])

\* DirFile::filename
DirFile_filename(k) == SubSeq(k.data, k.filename[1] + 1, k.filename[2])

\* a hash of the two components with nothing between them
DirFile_hash_unseparated(k) ==
    hash_bytes_as_lowercase(DirFile_dir(k)) \o hash_bytes_as_lowercase(DirFile_filename(k))

\* impl Hash for DirFile
DirFile_hash(k) ==
    hash_bytes_as_lowercase(DirFile_dir(k)) \o <<SEP>>
        \o hash_bytes_as_lowercase(DirFile_filename(k)) \o <<SEP>>

\* impl PartialEq for DirFile
DirFile_eq(k, other) ==
    /\ eq_ignore_ascii_case(DirFile_dir(k), DirFile_dir(other))
    /\ eq_ignore_ascii_case(DirFile_filename(k), DirFile_filename(other))

\* DirFileRef::new
DirFileRef_new(dir, filename) == [dir |-> dir, filename |-> filename]

\* impl Equivalent<DirFile> for DirFileRef
DirFileRef_equivalent(q, key) ==
    /\ eq_ignore_ascii_case(q.dir, DirFile_dir(key))
    /\ eq_ignore_ascii_case(q.filename, DirFile_filename(key))

\* impl Hash for DirFileRef
DirFileRef_hash(q) == hash_str(q.dir) \o hash_str(q.filename)

\* DirFileRefLowercase::new
DirFileRefLowercase_new(dir, filename) == [dir |-> dir, filename |-> filename]

\* impl Equivalent<DirFile> for DirFileRefLowercase
DirFileRefLowercase_equivalent(q, key) ==
    /\ eq_ignore_ascii_case(q.dir, DirFile_dir(key))
    /\ eq_ignore_ascii_case(q.filename, DirFile_filename(key))

\* impl Hash for DirFileRefLowercase
DirFileRefLowercase_hash(q) ==
    hash_str_as_lowercase(q.dir) \o hash_str_as_lowercase(q.filename)

\* DirFileBigRef::new: split the big filename at its last '/'
DirFileBigRef_new(dir, big_filename) ==
    LET res == rsplit_once(big_filename)
        split == IF res.some THEN res.v ELSE <<<<>>, big_filename>>
    IN  [dir |-> dir, extra_dir |-> split[1], filename |-> split[2]]

\* DirFileBigRef::equivalent with the filename comparison lost after the '/' is stripped
DirFileBigRef_equivalent_nofilename(q, key) ==
    LET dir_size == Len(q.dir)
        total_size == dir_size + Len(q.extra_dir)
        key_dir == DirFile_dir(key)
        start_dir == SubSeq(key_dir, 1, dir_size)
        rem_dir == SubSeq(key_dir, dir_size + 1, Len(key_dir))
        stripped == strip_prefix(rem_dir)
    IN  IF total_size > Range_len(key.dir) THEN FALSE
        ELSE IF ~eq_ignore_ascii_case(start_dir, q.dir) THEN FALSE
        ELSE IF q.extra_dir = <<>>
             THEN rem_dir = <<>> /\ eq_ignore_ascii_case(q.filename, DirFile_filename(key))
        ELSE IF stripped.some
             THEN eq_ignore_ascii_case(stripped.v, q.extra_dir)
        ELSE /\ eq_ignore_ascii_case(rem_dir, q.extra_dir)
             /\ eq_ignore_ascii_case(q.filename, DirFile_filename(key))

\* impl Equivalent<DirFile> for DirFileBigRef
DirFileBigRef_equivalent(q, key) ==
    LET dir_size == Len(q.dir)
        total_size == dir_size + Len(q.extra_dir)
        key_dir == DirFile_dir(key)
        start_dir == SubSeq(key_dir, 1, dir_size)
        rem_dir == SubSeq(key_dir, dir_size + 1, Len(key_dir))
        stripped == strip_prefix(rem_dir)
    IN  IF total_size > Range_len(key.dir) THEN FALSE
        ELSE IF ~eq_ignore_ascii_case(start_dir, q.dir) THEN FALSE
        ELSE IF q.extra_dir = <<>>
             THEN rem_dir = <<>> /\ eq_ignore_ascii_case(q.filename, DirFile_filename(key))
        ELSE IF stripped.some
             THEN /\ eq_ignore_ascii_case(stripped.v, q.extra_dir)
                  /\ eq_ignore_ascii_case(q.filename, DirFile_filename(key))
        ELSE /\ eq_ignore_ascii_case(rem_dir, q.extra_dir)
             /\ eq_ignore_ascii_case(q.filename, DirFile_filename(key))

\* impl Hash for DirFileBigRef
DirFileBigRef_hash(q) ==
    hash_bytes(q.dir)
        \o (IF q.extra_dir # <<>>
            THEN (IF q.dir # <<>> THEN <<SLASH>> ELSE <<>>) \o hash_bytes(q.extra_dir)
            ELSE <<>>)
        \o <<SEP>>
        \o hash_str(q.filename)

\* DirFileBigRefLowercase::new
DirFileBigRefLowercase_new(dir, big_filename) ==
    LET res == rsplit_once(big_filename)
        split == IF res.some THEN res.v ELSE <<<<>>, big_filename>>
    IN  [dir |-> dir, extra_dir |-> split[1], filename |-> split[2]]

\* impl Equivalent<DirFile> for DirFileBigRefLowercase
DirFileBigRefLowercase_equivalent(q, key) ==
    LET dir_size == Len(q.dir)
        total_size == dir_size + Len(q.extra_dir)
        key_dir == DirFile_dir(key)
        start_dir == SubSeq(key_dir, 1, dir_size)
        rem_dir == SubSeq(key_dir, dir_size + 1, Len(key_dir))
        stripped == strip_prefix(rem_dir)
    IN  IF total_size > Range_len(key.dir) THEN FALSE
        ELSE IF ~eq_ignore_ascii_case(start_dir, q.dir) THEN FALSE
        ELSE IF q.extra_dir = <<>>
             THEN rem_dir = <<>> /\ eq_ignore_ascii_case(q.filename, DirFile_filename(key))
        ELSE IF stripped.some
             THEN /\ eq_ignore_ascii_case(stripped.v, q.extra_dir)
                  /\ eq_ignore_ascii_case(q.filename, DirFile_filename(key))
        ELSE /\ eq_ignore_ascii_case(rem_dir, q.extra_dir)
             /\ eq_ignore_ascii_case(q.filename, DirFile_filename(key))

\* impl Hash for DirFileBigRefLowercase
DirFileBigRefLowercase_hash(q) ==
    hash_bytes_as_lowercase(q.dir)
        \o (IF q.extra_dir # <<>>
            THEN (IF q.dir # <<>> THEN <<SLASH>> ELSE <<>>)
                     \o hash_bytes_as_lowercase(q.extra_dir)
            ELSE <<>>)
        \o <<SEP>>
        \o hash_str_as_lowercase(q.filename)

(***************************************************************************)
(* Fixed-width integers.  A u32 is kept as its two 16-bit halves, so that  *)
(* every value of the full 32-bit range can be read, compared and added.   *)
(***************************************************************************)
\* a u32 from its halves
U32(hi, lo) == [hi |-> hi, lo |-> lo]

\* a small number as a u32
U32Of(n) == U32(n \div 65536, n % 65536)

\* u16::from_le_bytes (parse.rs read_u16)
u16_from_le_bytes(b) == b[1] + 256 * b[2]

\* u32::from_le_bytes (parse.rs read_u32)
u32_from_le_bytes(b) == U32(b[3] + 256 * b[4], b[1] + 256 * b[2])

\* u16::to_le_bytes, as the writer of a directory file lays a field out
u16_to_le_bytes(n) == <<n % 256, n \div 256>>

\* u32::to_le_bytes
u32_to_le_bytes(u) == u16_to_le_bytes(u.lo) \o u16_to_le_bytes(u.hi)

\* a + b on u32: the wrapped sum, and whether the true sum left the u32 range
u32_add(a, b) ==
    LET lo == a.lo + b.lo
        hi == a.hi + b.hi + (lo \div 65536)
    IN  [value |-> U32(hi % 65536, lo % 65536), overflow |-> hi >= 65536]

(***************************************************************************)
(* src/src/vpk.rs: constants, extensions, read_cstring                     *)
(***************************************************************************)
\* const VPK_SIGNATURE: u32 = 0x55aa1234
VPK_SIGNATURE == U32(21930, 4660)

\* const VPK_SELF_HASHES_LENGTH: u32 = 48
VPK_SELF_HASHES_LENGTH == 48

\* the archive index of inline data, 0x7fff
INLINE_INDEX == 32767

\* the terminator of a directory record, 0xffff
SUFFIX == 65535

\* mem::size_of::<VPKHeader>(): three u32
SIZE_OF_VPKHeader == 12

\* mem::size_of::<VPKHeaderV2>(): four u32
SIZE_OF_VPKHeaderV2 == 16

\* the bytes VPKHeaderV2Checksum::read_le reads: three u128
SIZE_OF_VPKHeaderV2Checksum == 48

\* the bytes VPKDirectoryEntry::read_le reads
SIZE_OF_VPKDirectoryEntry == 18

\* Ext::as_str of the twelve fixed extensions
ExtStr ==
    [Vmt |-> <<118, 109, 116>>, Vtf |-> <<118, 116, 102>>, Mdl |-> <<109, 100, 108>>,
     Scr |-> <<115, 99, 114>>, Xsc |-> <<120, 115, 99>>, Gam |-> <<103, 97, 109>>,
     Lst |-> <<108, 115, 116>>, Dsp |-> <<100, 115, 112>>, Ico |-> <<105, 99, 111>>,
     Icns |-> <<105, 99, 110, 115>>, Bmp |-> <<98, 109, 112>>, Dat |-> <<100, 97, 116>>]

\* the fixed variants of enum Ext
FixedExt == DOMAIN ExtStr

\* a from_ext_str that takes the string as it is
from_ext_str_exact(s) ==
    IF \E t \in FixedExt : ExtStr[t] = s
    THEN [tag |-> CHOOSE t \in FixedExt : ExtStr[t] = s]
    ELSE [tag |-> "Other", s |-> s]

\* Ext::from_ext_str
from_ext_str(s) ==
    LET lower == IF \A i \in 1..Len(s) : s[i] \in 97..122
                 THEN s
                 ELSE str_to_ascii_lowercase(s)
    IN  IF \E t \in FixedExt : ExtStr[t] = lower
        THEN [tag |-> CHOOSE t \in FixedExt : ExtStr[t] = lower]
        ELSE [tag |-> "Other", s |-> lower]

\* str::to_lowercase, on ASCII text (the only valid text the model's buffers hold)
str_to_lowercase(s) == str_to_ascii_lowercase(s)

\* a from_utf8 that takes any bytes for text
from_utf8_any(bytes) == TRUE

\* std::str::from_utf8(..).is_ok(), for buffers of ASCII bytes and 0xff: ASCII is
\* valid, a byte 0xff never is
from_utf8_ok(bytes) == \A i \in 1..Len(bytes) : bytes[i] < 128

\* a read_cstring that has moved the cursor over what it scanned when it fails
read_cstring_consuming(data, start) ==
    LET nulls == {i \in (start + 1)..Len(data) : data[i] = 0}
    IN  IF nulls = {}
        THEN [ok |-> FALSE, err |-> "ReadError(UnexpectedEof)", pos |-> Len(data)]
        ELSE LET end == (CHOOSE i \in nulls : \A j \in nulls : i <= j) - 1
                 string == SubSeq(data, start + 1, end)
             IN  IF ~from_utf8_ok(string)
                 THEN [ok |-> FALSE, err |-> "ReadError(InvalidData)", pos |-> end + 1]
                 ELSE [ok |-> TRUE, string |-> string, pos |-> end + 1]

\* a read_cstring that leaves the cursor on the null byte
read_cstring_at_null(data, start) ==
    LET nulls == {i \in (start + 1)..Len(data) : data[i] = 0}
    IN  IF nulls = {}
        THEN [ok |-> FALSE, err |-> "ReadError(UnexpectedEof)", pos |-> start]
        ELSE LET end == (CHOOSE i \in nulls : \A j \in nulls : i <= j) - 1
                 string == SubSeq(data, start + 1, end)
             IN  IF ~from_utf8_ok(string)
                 THEN [ok |-> FALSE, err |-> "ReadError(InvalidData)", pos |-> start]
                 ELSE [ok |-> TRUE, string |-> string, pos |-> end]

\* read_cstring: from position start (0-based, inside data or at its end) of data, the
\* error or the string, and the position of the cursor when it returns: the seek past
\* the null byte is made after both `?`
read_cstring(data, start) ==
    LET nulls == {i \in (start + 1)..Len(data) : data[i] = 0}
    IN  IF nulls = {}
        THEN [ok |-> FALSE, err |-> "ReadError(UnexpectedEof)", pos |-> start]
        ELSE LET end == (CHOOSE i \in nulls : \A j \in nulls : i <= j) - 1
                 string == SubSeq(data, start + 1, end)
             IN  IF ~from_utf8_ok(string)
                 THEN [ok |-> FALSE, err |-> "ReadError(InvalidData)", pos |-> start]
                 ELSE [ok |-> TRUE, string |-> string, pos |-> end + 1]

\* Read::read_exact on the cursor: n bytes from position pos, or an error
read_exact(data, pos, n) ==
    IF pos + n > Len(data)
    THEN [ok |-> FALSE, err |-> "ReadError(UnexpectedEof)"]
    ELSE [ok |-> TRUE, bytes |-> SubSeq(data, pos + 1, pos + n), pos |-> pos + n]

\* VPKHeader::read_le (structs.rs)
VPKHeader_read_le(b) ==
    [signature |-> u32_from_le_bytes(SubSeq(b, 1, 4)),
     version |-> u32_from_le_bytes(SubSeq(b, 5, 8)),
     tree_length |-> u32_from_le_bytes(SubSeq(b, 9, 12))]

\* VPKHeaderV2::read_le (structs.rs)
VPKHeaderV2_read_le(b) ==
    [embed_chunk_length |-> u32_from_le_bytes(SubSeq(b, 1, 4)),
     chunk_hashes_length |-> u32_from_le_bytes(SubSeq(b, 5, 8)),
     self_hashes_length |-> u32_from_le_bytes(SubSeq(b, 9, 12)),
     signature_length |-> u32_from_le_bytes(SubSeq(b, 13, 16))]

\* VPKHeaderV2Checksum::read_le (structs.rs): three u128, kept as their bytes
VPKHeaderV2Checksum_read_le(b) ==
    [tree_checksum |-> SubSeq(b, 1, 16),
     chunk_hashes_checksum |-> SubSeq(b, 17, 32),
     file_checksum |-> SubSeq(b, 33, 48)]

\* VPKDirectoryEntry::read_le (entry.rs)
VPKDirectoryEntry_read_le(b) ==
    [crc32 |-> u32_from_le_bytes(SubSeq(b, 1, 4)),
     preload_length |-> u16_from_le_bytes(SubSeq(b, 5, 6)),
     archive_index |-> u16_from_le_bytes(SubSeq(b, 7, 8)),
     archive_offset |-> u32_from_le_bytes(SubSeq(b, 9, 12)),
     file_length |-> u32_from_le_bytes(SubSeq(b, 13, 16)),
     suffix |-> u16_from_le_bytes(SubSeq(b, 17, 18))]

(***************************************************************************)
(* src/src/vpk.rs: the stored key, the query shapes and the tree           *)
(***************************************************************************)
\* vpk.rs hash_bytes
vpk_hash_bytes(bytes) == bytes

\* a hash_bytes_as_lowercase that lowers nothing
vpk_hash_bytes_as_lowercase_not(bytes) == bytes

\* vpk.rs hash_bytes_as_lowercase
vpk_hash_bytes_as_lowercase(bytes) ==
    [i \in 1..Len(bytes) |-> to_ascii_lowercase(bytes[i])]

\* vpk.rs hash_str
vpk_hash_str(s) == vpk_hash_bytes(s) \o <<SEP>>

\* vpk.rs hash_str_as_lowercase
vpk_hash_str_as_lowercase(s) == vpk_hash_bytes_as_lowercase(s) \o <<SEP>>

\* vpk.rs DirFile::new: the key owns its two strings
vpk_DirFile_new(dir, filename) == [dir |-> dir, filename |-> filename]

\* vpk.rs impl Hash for DirFile
vpk_DirFile_hash(k) == vpk_hash_str(k.dir) \o vpk_hash_str(k.filename)

\* vpk.rs #[derive(PartialEq)] for DirFile
vpk_DirFile_eq(k, other) == k.dir = other.dir /\ k.filename = other.filename

\* vpk.rs impl Equivalent<DirFile> for DirFileRef
vpk_DirFileRef_equivalent(q, k) == q.dir = k.dir /\ q.filename = k.filename

\* vpk.rs impl Hash for DirFileRef
vpk_DirFileRef_hash(q) == vpk_hash_str(q.dir) \o vpk_hash_str(q.filename)

\* vpk.rs impl Equivalent<DirFile> for DirFileRefLowercase
vpk_DirFileRefLowercase_equivalent(q, k) ==
    eq_ignore_ascii_case(q.dir, k.dir) /\ eq_ignore_ascii_case(q.filename, k.filename)

\* vpk.rs impl Hash for DirFileRefLowercase
vpk_DirFileRefLowercase_hash(q) ==
    vpk_hash_str_as_lowercase(q.dir) \o vpk_hash_str_as_lowercase(q.filename)

\* vpk.rs DirFileBigRef::new and DirFileBigRefLowercase::new
vpk_DirFileBigRef_new(dir, big_filename) ==
    LET res == rsplit_once(big_filename)
        split == IF res.some THEN res.v ELSE <<<<>>, big_filename>>
    IN  [dir |-> dir, extra_dir |-> split[1], filename |-> split[2]]

\* vpk.rs impl Equivalent<DirFile> for DirFileBigRef
vpk_DirFileBigRef_equivalent(q, k) ==
    LET dir_size == Len(q.dir)
        total_size == dir_size + Len(q.extra_dir)
        start_dir == SubSeq(k.dir, 1, dir_size)
        rem_dir == SubSeq(k.dir, dir_size + 1, Len(k.dir))
        stripped == strip_prefix(rem_dir)
    IN  IF total_size > Len(k.dir) THEN FALSE
        ELSE IF start_dir # q.dir THEN FALSE
        ELSE IF q.extra_dir = <<>>
             THEN rem_dir = <<>> /\ q.filename = k.filename
        ELSE IF stripped.some
             THEN stripped.v = q.extra_dir /\ q.filename = k.filename
        ELSE rem_dir = q.extra_dir /\ q.filename = k.filename

\* vpk.rs impl Hash for DirFileBigRef
vpk_DirFileBigRef_hash(q) ==
    vpk_hash_bytes(q.dir)
        \o (IF q.extra_dir # <<>>
            THEN (IF q.dir # <<>> THEN <<SLASH>> ELSE <<>>) \o vpk_hash_bytes(q.extra_dir)
            ELSE <<>>)
        \o <<SEP>>
        \o vpk_hash_str(q.filename)

\* vpk.rs impl Equivalent<DirFile> for DirFileBigRefLowercase
vpk_DirFileBigRefLowercase_equivalent(q, k) ==
    LET dir_size == Len(q.dir)
        total_size == dir_size + Len(q.extra_dir)
        start_dir == SubSeq(k.dir, 1, dir_size)
        rem_dir == SubSeq(k.dir, dir_size + 1, Len(k.dir))
        stripped == strip_prefix(rem_dir)
    IN  IF total_size > Len(k.dir) THEN FALSE
        ELSE IF ~eq_ignore_ascii_case(start_dir, q.dir) THEN FALSE
        ELSE IF q.extra_dir = <<>>
             THEN rem_dir = <<>> /\ eq_ignore_ascii_case(q.filename, k.filename)
        ELSE IF stripped.some
             THEN /\ eq_ignore_ascii_case(stripped.v, q.extra_dir)
                  /\ eq_ignore_ascii_case(q.filename, k.filename)
        ELSE /\ eq_ignore_ascii_case(rem_dir, q.extra_dir)
             /\ eq_ignore_ascii_case(q.filename, k.filename)

\* vpk.rs impl Hash for DirFileBigRefLowercase
vpk_DirFileBigRefLowercase_hash(q) ==
    vpk_hash_bytes_as_lowercase(q.dir)
        \o (IF q.extra_dir # <<>>
            THEN (IF q.dir # <<>> THEN <<SLASH>> ELSE <<>>)
                     \o vpk_hash_bytes_as_lowercase(q.extra_dir)
            ELSE <<>>)
        \o <<SEP>>
        \o vpk_hash_str_as_lowercase(q.filename)

\* a query key of one of the four shapes, as the lookups build it
QueryKey(shape, dir, filename) ==
    IF shape \in {"DirFileBigRef", "DirFileBigRefLowercase"}
    THEN [shape |-> shape] @@ vpk_DirFileBigRef_new(dir, filename)
    ELSE [shape |-> shape, dir |-> dir, filename |-> filename]

\* Q::hash of a query key
QueryKey_hash(q) ==
    CASE q.shape = "DirFileRef" -> vpk_DirFileRef_hash(q)
      [] q.shape = "DirFileRefLowercase" -> vpk_DirFileRefLowercase_hash(q)
      [] q.shape = "DirFileBigRef" -> vpk_DirFileBigRef_hash(q)
      [] q.shape = "DirFileBigRefLowercase" -> vpk_DirFileBigRefLowercase_hash(q)

\* Q::equivalent of a query key
QueryKey_equivalent(q, k) ==
    CASE q.shape = "DirFileRef" -> vpk_DirFileRef_equivalent(q, k)
      [] q.shape = "DirFileRefLowercase" -> vpk_DirFileRefLowercase_equivalent(q, k)
      [] q.shape = "DirFileBigRef" -> vpk_DirFileBigRef_equivalent(q, k)
      [] q.shape = "DirFileBigRefLowercase" -> vpk_DirFileBigRefLowercase_equivalent(q, k)

\* IndexMap<DirFile, VPKEntry>: the entries in insertion order.  A probe visits the
\* entries whose hash equals the probing key's hash and takes the first that compares
\* equal.
DirFileEntryMap_default == <<>>

\* IndexMap::get_index_of with a query key
IndexMap_find(map, q) ==
    LET hits == {i \in 1..Len(map) : /\ vpk_DirFile_hash(map[i].key) = QueryKey_hash(q)
                                     /\ QueryKey_equivalent(q, map[i].key)}
    IN  IF hits = {} THEN 0 ELSE CHOOSE i \in hits : \A j \in hits : i <= j

\* IndexMap::get with a query key
IndexMap_get(map, q) ==
    LET i == IndexMap_find(map, q)
    IN  IF i = 0 THEN None ELSE Some(map[i].value)

\* an insert that appends whatever the map holds
IndexMap_insert_append(map, k, value) == Append(map, [key |-> k, value |-> value])

\* IndexMap::insert: replace the value of an equal key in place, else append
IndexMap_insert(map, k, value) ==
    LET hits == {i \in 1..Len(map) : /\ vpk_DirFile_hash(map[i].key) = vpk_DirFile_hash(k)
                                     /\ vpk_DirFile_eq(map[i].key, k)}
    IN  IF hits = {}
        THEN Append(map, [key |-> k, value |-> value])
        ELSE [map EXCEPT ![CHOOSE i \in hits : TRUE].value = value]

\* VPKTree::default: the twelve fixed tables and the table of other extensions
VPKTree_default ==
    [fixed |-> [t \in FixedExt |-> DirFileEntryMap_default], other |-> <<>>]

\* IndexMap<String, DirFileEntryMap>::get_index_of on VPKTree::other
other_find(other, s) ==
    LET hits == {i \in 1..Len(other) : other[i].key = s}
    IN  IF hits = {} THEN 0 ELSE CHOOSE i \in hits : TRUE

\* VPKTree::for_ext
VPKTree_for_ext(tree, ext) ==
    IF ext.tag # "Other" THEN Some(tree.fixed[ext.tag])
    ELSE LET i == other_find(tree.other, ext.s)
         IN  IF i = 0 THEN None ELSE Some(tree.other[i].value)

\* VPKTree::get_direct
VPKTree_get_direct(tree, ext, q) ==
    LET map == VPKTree_for_ext(tree, ext)
    IN  IF ~map.some THEN None ELSE IndexMap_get(map.v, q)

\* VPKTree::get
VPKTree_get(tree, ext, dir_start, big_filename) ==
    VPKTree_get_direct(tree, ext, QueryKey("DirFileBigRef", dir_start, big_filename))

\* VPKTree::get_ignore_case
VPKTree_get_ignore_case(tree, ext, dir_start, big_filename) ==
    VPKTree_get_direct(tree, ext, QueryKey("DirFileBigRefLowercase", dir_start, big_filename))

\* VPKTree::getf
VPKTree_getf(tree, ext, dir, filename) ==
    VPKTree_get_direct(tree, ext, QueryKey("DirFileRef", dir, filename))

\* VPKTree::getf_ignore_case
VPKTree_getf_ignore_case(tree, ext, dir, filename) ==
    VPKTree_get_direct(tree, ext, QueryKey("DirFileRefLowercase", dir, filename))

\* VPKTree::insert
VPKTree_insert(tree, ext, dir, filename, entry) ==
    LET re == vpk_DirFile_new(dir, filename)
    IN  IF ext.tag # "Other"
        THEN [tree EXCEPT !.fixed[ext.tag] = IndexMap_insert(@, re, entry)]
        ELSE LET i == other_find(tree.other, ext.s)
             IN  IF i # 0
                 THEN [tree EXCEPT !.other[i].value = IndexMap_insert(@, re, entry)]
                 ELSE [tree EXCEPT !.other =
                           Append(@, [key |-> ext.s,
                                      value |-> IndexMap_insert(DirFileEntryMap_default,
                                                                re, entry)])]

(***************************************************************************)
(* src/src/vpk.rs: VPK::read, step by step                                 *)
(***************************************************************************)
\* the VPK under construction (vpk.rs:132-139)
VPK_new(header) ==
    [header_length |-> 4 * 3, header |-> header, header_v2 |-> None,
     header_v2_checksum |-> None, tree |-> VPKTree_default, data |-> <<>>]

\* the outcome of a step of VPK::read that ends the load with an error or a panic
Stop(err) == [result |-> err]

\* a version check that lets version 3 through
unsupported_version_above3(version) == version.hi > 0 \/ version.lo > 3

\* VPK::read, line 128: header.version > 2
unsupported_version(version) == version.hi > 0 \/ version.lo > 2

\* a terminator check that refuses nothing
bad_suffix_never(dir_entry) == FALSE

\* VPK::read, line 203: dir_entry.suffix != 0xffff
bad_suffix(dir_entry) == dir_entry.suffix # SUFFIX

\* a cursor left where the checksums ended
seek_after_headers_not(position) == position

\* VPK::read, lines 158-160: reader.seek(SeekFrom::Start(header_length)), from any position
seek_after_headers(position) == SIZE_OF_VPKHeader + SIZE_OF_VPKHeaderV2

\* VPK::read, lines 123-162: the header, the version 2 header and its checksums.
\* checks: whether the build panics on integer overflow (it wraps otherwise).
read_header(data, checks) ==
    LET h == read_exact(data, 0, SIZE_OF_VPKHeader)
        header == VPKHeader_read_le(h.bytes)
        h2 == read_exact(data, h.pos, SIZE_OF_VPKHeaderV2)
        header_v2 == VPKHeaderV2_read_le(h2.bytes)
        sum1 == u32_add(header.tree_length, header_v2.embed_chunk_length)
        sum2 == u32_add(sum1.value, header_v2.chunk_hashes_length)
        checksum_offset == sum2.value
        \* the cursor after seek(SeekFrom::Current(checksum_offset)) is at
        \* h2.pos + checksum_offset; past 65535 it is past the end of any buffer here
        c == IF checksum_offset.hi > 0
             THEN [ok |-> FALSE, err |-> "ReadError(UnexpectedEof)"]
             ELSE read_exact(data, h2.pos + checksum_offset.lo, SIZE_OF_VPKHeaderV2Checksum)
    IN  IF ~h.ok THEN Stop(h.err)
        ELSE IF header.signature # VPK_SIGNATURE THEN Stop("InvalidSignature")
        ELSE IF unsupported_version(header.version) THEN Stop("UnsupportedVersion")
        ELSE IF header.version # U32Of(2)
             THEN [result |-> "running", vpk |-> VPK_new(header), pos |-> h.pos,
                   wrapped |-> FALSE]
        ELSE IF ~h2.ok THEN Stop(h2.err)
        ELSE IF header_v2.self_hashes_length # U32Of(VPK_SELF_HASHES_LENGTH)
             THEN Stop("HashSizeMismatch")
        ELSE IF checks /\ (sum1.overflow \/ sum2.overflow) THEN Stop("panic")
        ELSE IF ~c.ok THEN Stop(c.err)
        ELSE [result |-> "running",
              vpk |-> [VPK_new(header) EXCEPT
                           !.header_length = @ + 4 * 4,
                           !.header_v2 = Some(header_v2),
                           !.header_v2_checksum = Some(VPKHeaderV2Checksum_read_le(c.bytes))],
              pos |-> seek_after_headers(c.pos),
              wrapped |-> sum1.overflow \/ sum2.overflow]

\* a directory of a group that keeps the single space
dir_of_path_kept(path) == str_to_ascii_lowercase(path)

\* VPK::read, lines 186-191: the directory of a group, the single space being the root
dir_of_path(path) == IF path = <<32>> THEN <<>> ELSE str_to_ascii_lowercase(path)

RECURSIVE str_replace(_, _, _)
\* str::replace(from, to): every occurrence of from that does not overlap an earlier one,
\* taken from the left
str_replace(s, from, to) ==
    IF Len(s) < Len(from) THEN s
    ELSE IF SubSeq(s, 1, Len(from)) = from
         THEN to \o str_replace(SubSeq(s, Len(from) + 1, Len(s)), from, to)
    ELSE <<Head(s)>> \o str_replace(Tail(s), from, to)

RECURSIVE Digits(_)
\* the decimal digits of n, as characters
Digits(n) == IF n < 10 THEN <<48 + n>> ELSE Digits(n \div 10) \o <<48 + (n % 10)>>

\* format!("{:03}.", n)
format_03_dot(n) ==
    LET digits == Digits(n)
    IN  [i \in 1..(3 - Len(digits)) |-> 48] \o digits \o <<46>>

\* the four characters "dir."
S_dir_dot == <<100, 105, 114, 46>>

\* VPK::read, lines 211-213: the path of the data file of an archive index
archive_path_of(dir_path, archive_index) ==
    str_replace(dir_path, S_dir_dot, format_03_dot(archive_index))

\* VPK::read, lines 194-221: one turn of the filename loop, from the cursor at pos.
\* Either the empty name that ends the loop, or a record read and inserted.
read_entry(data, pos, v, ext, path, checks, dir_path) ==
    LET n == read_cstring(data, pos)
        name == str_to_lowercase(n.string)
        r == read_exact(data, n.pos, SIZE_OF_VPKDirectoryEntry)
        dir_entry == VPKDirectoryEntry_read_le(r.bytes)
        base == u32_add(U32Of(v.header_length), v.header.tree_length)
        moved == u32_add(dir_entry.archive_offset, base.value)
        inline == dir_entry.archive_index = INLINE_INDEX
        overflow == inline /\ (base.overflow \/ moved.overflow)
        vpk_entry == [dir_entry |-> IF inline
                                    THEN [dir_entry EXCEPT !.archive_offset = moved.value]
                                    ELSE dir_entry,
                      archive_path |-> archive_path_of(dir_path, dir_entry.archive_index),
                      preload_start |-> r.pos]
    IN  IF ~n.ok THEN Stop(n.err)
        ELSE IF n.string = <<>> THEN [result |-> "running", last |-> TRUE, pos |-> n.pos]
        ELSE IF ~r.ok THEN Stop(r.err)
        ELSE IF bad_suffix(dir_entry) THEN Stop("MalformedIndex")
        ELSE IF checks /\ overflow THEN Stop("panic")
        ELSE [result |-> "running", last |-> FALSE, pos |-> r.pos,
              name |-> n.string, entry |-> vpk_entry,
              tree |-> VPKTree_insert(v.tree, ext, path, name, vpk_entry),
              wrapped |-> overflow]

(***************************************************************************)
(* State                                                                   *)
(***************************************************************************)
VARIABLES
    key,     \* the stored DirFile a query key is compared with
    query,   \* the two strings a query key is built from: [dir, filename]
    probe,   \* the last comparison made: the shape, the key built, equivalent and both hashes
    dir_path,\* VPK::read: the path of the directory file
    file,    \* VPK::read: the bytes of the directory file
    pos,     \* VPK::read: reader.position()
    pc,      \* VPK::read: "header", the loop about to read ("ext", "path", "name"), "done"
    vpk,     \* VPK::read: the VPK being built, None before it is
    ext,     \* VPK::read: the Ext of the extension loop's turn
    path,    \* VPK::read: the directory of the directory loop's turn
    result,  \* VPK::read: "running", "Ok", the Error returned, or "panic"
    wrapped, \* VPK::read: an addition has wrapped (a build without overflow checks)
    parsed,  \* history: the records inserted so far, with their strings as written
    lookup,  \* the lookup a caller has made on the archive, and what it found
    got,     \* the retrieval a caller has made of an entry, and what it returned
    cstring  \* read_cstring alone: where the last call started and what it returned

vars == <<key, query, probe, dir_path, file, pos, pc, vpk, ext, path, result, wrapped, parsed, lookup, got,
         cstring>>

\* no lookup and no retrieval made
NoLookup == [method |-> "none"]
NoGet == [out |-> "none"]
\* no call of read_cstring alone
NoCstring == [called |-> FALSE]

keyVars == <<key, query, probe>>
readVars == <<dir_path, file, pos, pc, vpk, ext, path, result, wrapped, parsed, lookup, got>>

(***************************************************************************)
(* Directory files: the layout VPK::read parses, as a writer produces it   *)
(***************************************************************************)
\* most entries of a directory file of the model
MaxEntries == 2

\* u32::MAX
U32_MAX == U32(65535, 65535)

\* one logical file: its three strings as written, its record and its inline payload
Entry(e, d, n, preload_length, archive_index, archive_offset, file_length, suffix, payload) ==
    [ext |-> e, dir |-> d, name |-> n, preload_length |-> preload_length,
     archive_index |-> archive_index, archive_offset |-> archive_offset,
     file_length |-> file_length, suffix |-> suffix, payload |-> payload]

\* an entry stored in data file 0 at offset 1, two bytes long
External(e, d, n) == Entry(e, d, n, 0, 0, U32Of(1), U32Of(2), SUFFIX, <<>>)

\* an entry stored inline with its payload
Inline(e, d, n, payload) ==
    Entry(e, d, n, Len(payload), INLINE_INDEX, U32Of(0), U32Of(0), SUFFIX, payload)

\* the 18 bytes of a record
WriteRecord(e) ==
    u32_to_le_bytes(U32Of(0)) \o u16_to_le_bytes(e.preload_length)
        \o u16_to_le_bytes(e.archive_index) \o u32_to_le_bytes(e.archive_offset)
        \o u32_to_le_bytes(e.file_length) \o u16_to_le_bytes(e.suffix)

\* a filename, its record and its payload
WriteEntry(e) == e.name \o <<0>> \o WriteRecord(e) \o e.payload

\* the tree section: entries that follow each other with the same extension (and
\* directory) share the extension's (and the directory's) group
WriteTree(es) ==
    LET opening(i) ==
            IF i = 1 THEN es[i].ext \o <<0>> \o es[i].dir \o <<0>>
            ELSE IF es[i].ext # es[i - 1].ext
                 THEN <<0, 0>> \o es[i].ext \o <<0>> \o es[i].dir \o <<0>>
            ELSE IF es[i].dir # es[i - 1].dir THEN <<0>> \o es[i].dir \o <<0>>
            ELSE <<>>
        RECURSIVE upto(_)
        upto(i) == IF i = 0 THEN <<>> ELSE upto(i - 1) \o opening(i) \o WriteEntry(es[i])
    IN  upto(Len(es)) \o (IF Len(es) > 0 THEN <<0, 0>> ELSE <<>>) \o <<0>>

\* the 12 bytes of a header
WriteHeader(signature, version, tree_length) ==
    u32_to_le_bytes(signature) \o u32_to_le_bytes(version) \o u32_to_le_bytes(tree_length)

\* the 16 bytes of a version 2 header
WriteHeaderV2(embed_chunk_length, chunk_hashes_length, self_hashes_length) ==
    u32_to_le_bytes(embed_chunk_length) \o u32_to_le_bytes(chunk_hashes_length)
        \o u32_to_le_bytes(self_hashes_length) \o u32_to_le_bytes(U32Of(0))

\* n bytes of value b
Fill(n, b) == [i \in 1..n |-> b]

\* a directory file of version 0 or 1
FileV1(version, es) ==
    WriteHeader(VPK_SIGNATURE, U32Of(version), U32Of(Len(WriteTree(es)))) \o WriteTree(es)

\* a directory file of version 2 with no embedded data: the tree, then the checksums
FileV2(es) ==
    WriteHeader(VPK_SIGNATURE, U32Of(2), U32Of(Len(WriteTree(es))))
        \o WriteHeaderV2(U32Of(0), U32Of(0), U32Of(VPK_SELF_HASHES_LENGTH))
        \o WriteTree(es) \o Fill(SIZE_OF_VPKHeaderV2Checksum, 170)

\* the strings of the entries: "vmt", "VMT", "x", "X", " ", "a", "A", "b", "a/a"
S_vmt == <<118, 109, 116>>
S_VMT == <<86, 77, 84>>
S_a == <<97>>
S_b == <<98>>

\* the inline payloads: every string over 'b' and 0 of up to MaxPayloadLen bytes
MaxPayloadLen == 2
Payloads == StrUpTo({0, 98}, MaxPayloadLen)

\* the entries that files of several entries are made of
CoreEntries ==
    {External(S_vmt, <<32>>, S_a), External(S_vmt, S_a, S_a), External(S_vmt, <<65>>, <<65>>),
     External(S_VMT, S_a, S_a), External(<<120>>, S_a, S_a), External(<<88>>, S_a, <<65>>),
     External(S_vmt, <<97, 47, 97>>, S_a), External(S_vmt, S_a, <<97, 47, 97>>),
     Inline(S_vmt, S_a, S_b, <<>>), Inline(S_vmt, S_a, S_b, <<98>>),
     Inline(S_vmt, S_a, S_b, <<0>>),
     Entry(S_vmt, S_a, S_b, 0, 0, U32Of(0), U32Of(1), 0, <<>>)}

\* more records, for files of one entry: longer payloads, a preload length with no
\* payload behind it, lengths and offsets at the ends of the u32 range, invalid text
LoneEntries ==
    {Inline(S_vmt, S_a, S_b, p) : p \in Payloads}
        \cup {Entry(S_vmt, S_a, S_b, 2, INLINE_INDEX, U32Of(0), U32Of(0), SUFFIX, <<>>),
              Entry(S_vmt, S_a, S_b, 4, INLINE_INDEX, U32Of(0), U32Of(0), SUFFIX, <<>>),
              Entry(S_vmt, S_a, S_b, 0, INLINE_INDEX, U32_MAX, U32Of(0), SUFFIX, <<>>),
              Entry(S_vmt, S_a, S_b, 0, 1, U32Of(0), U32Of(0), SUFFIX, <<>>),
              Entry(S_vmt, S_a, S_b, 0, 1, U32Of(0), U32_MAX, SUFFIX, <<>>),
              Entry(S_vmt, S_a, S_b, 1, 0, U32Of(1), U32Of(2), SUFFIX, <<98>>),
              External(S_vmt, S_a, <<255>>), External(S_vmt, <<255>>, S_a),
              External(<<255>>, S_a, S_a)}

\* well-formed files of up to MaxEntries entries, and files of one entry
TreeFiles ==
    {FileV1(1, es) : es \in StrUpTo(CoreEntries, MaxEntries)}
        \cup {FileV1(v, <<e>>) : v \in {0, 1}, e \in LoneEntries}
        \cup {FileV2(<<e>>) : e \in CoreEntries \cup LoneEntries}

\* files whose header fields take every value the header checks tell apart: a wrong
\* signature, versions 0..3 and 65538, a tree length of u32::MAX, and for version 2 a
\* self-hash length of 47, embedded data, lengths whose sum leaves the u32 range, and
\* a missing checksum block
HeaderFiles ==
    LET trees == {<<>>, <<Inline(S_vmt, S_a, S_b, <<>>)>>}
        sigs == {VPK_SIGNATURE, U32(21930, 4661)}
        lens(es) == {U32Of(Len(WriteTree(es))), U32_MAX}
        v2s == {<<U32Of(0), U32Of(0), U32Of(48), 0>>, <<U32Of(0), U32Of(0), U32Of(47), 0>>,
                <<U32Of(2), U32Of(1), U32Of(48), 3>>, <<U32_MAX, U32Of(1), U32Of(48), 0>>}
    IN  {WriteHeader(s, v, l) \o WriteTree(es) :
            s \in sigs, v \in {U32Of(0), U32Of(1), U32Of(3), U32(1, 2)},
            l \in UNION {lens(t) : t \in trees}, es \in trees}
        \cup {WriteHeader(s, U32Of(2), l) \o WriteHeaderV2(h[1], h[2], h[3]) \o WriteTree(es)
                  \o Fill(h[4], 1) \o Fill(c, 170) :
                s \in sigs, l \in UNION {lens(t) : t \in trees}, es \in trees,
                h \in v2s, c \in {0, SIZE_OF_VPKHeaderV2Checksum}}

\* every proper prefix of a well-formed file: a load that runs out of bytes
TruncatedFiles ==
    LET whole == {FileV1(1, <<External(S_vmt, S_a, S_a)>>), FileV2(<<>>)}
    IN  UNION {{SubSeq(f, 1, n) : n \in 0..Len(f) - 1} : f \in whole}

\* the directory files VPK::read is run on
Files == TreeFiles \cup HeaderFiles \cup TruncatedFiles

\* the archives on which callers make lookups and retrievals one after another
SharedFiles ==
    {FileV1(0, <<External(S_vmt, S_a, S_b)>>), FileV1(0, <<Inline(S_vmt, S_a, S_a, <<0>>)>>)}

\* most directories above the directory file in its path
MaxPathDepth == 1

\* "p_dir.vpk", and "p.vpk", a name without the suffix
S_p_dir_vpk == <<112, 95>> \o S_dir_dot \o <<118, 112, 107>>
S_p_vpk == <<112, 46, 118, 112, 107>>

\* the path the files above are read from
DefaultPath == S_p_dir_vpk

RECURSIVE Concat(_)
\* the strings of a sequence, joined
Concat(ss) == IF ss = <<>> THEN <<>> ELSE Head(ss) \o Concat(Tail(ss))

\* the paths of a directory file: up to MaxPathDepth directories named "x" or "dir.d",
\* then the file name
Paths ==
    {Concat(parents) \o name :
        parents \in StrUpTo({<<120, 47>>, S_dir_dot \o <<100, 47>>}, MaxPathDepth),
        name \in {S_p_dir_vpk, S_p_vpk}}

\* the files read from each of these paths: one entry, in data file 0, 12 or 1000
PathFiles ==
    {FileV1(1, <<Entry(S_vmt, S_a, S_a, 0, i, U32Of(1), U32Of(2), SUFFIX, <<>>)>>) :
        i \in {0, 12, 1000}}

(***************************************************************************)
(* VPK::read as a process                                                  *)
(***************************************************************************)
\* the stored key of dir and filename, laid out as in the tests: dir ';' filename
StoredKey(dir, filename) ==
    DirFile_new(dir \o <<59>> \o filename,
                <<0, Len(dir)>>,
                <<Len(dir) + 1, Len(dir) + 1 + Len(filename)>>)

\* the stored key while no key shape is compared
StoredKeyIdle == StoredKey(<<>>, <<>>)

\* the key shapes are at rest while a file is read
KeysIdle ==
    /\ key = StoredKeyIdle
    /\ query = [dir |-> <<>>, filename |-> <<>>]
    /\ probe = [shape |-> "idle"]

\* the reader is at rest while key shapes are compared
ReadIdle ==
    /\ dir_path = <<>>
    /\ file = <<>>
    /\ pos = 0
    /\ pc = "idle"
    /\ vpk = None
    /\ ext = None
    /\ path = <<>>
    /\ result = "idle"
    /\ wrapped = FALSE
    /\ parsed = <<>>
    /\ lookup = NoLookup
    /\ got = NoGet

\* std::fs::read(dir_path) has returned the file; the cursor is at its start
Init ==
    /\ \E read \in ((Files \cup SharedFiles) \X {DefaultPath}) \cup (PathFiles \X Paths) :
        /\ file = read[1]
        /\ dir_path = read[2]
    /\ pos = 0
    /\ pc = "header"
    /\ vpk = None
    /\ ext = None
    /\ path = <<>>
    /\ result = "running"
    /\ wrapped = FALSE
    /\ parsed = <<>>
    /\ lookup = NoLookup
    /\ got = NoGet
    /\ KeysIdle
    /\ cstring = NoCstring

\* `?` and `return Err(..)`: the load ends, the VPK under construction is dropped and
\* nothing is returned but the error
Abort(err) ==
    /\ result' = err
    /\ pc' = "done"
    /\ vpk' = None
    /\ UNCHANGED <<dir_path, file, pos, ext, path, wrapped, parsed>>

\* lines 123-162
ReadHeader ==
    /\ pc = "header"
    /\ \E checks \in BOOLEAN :
        LET o == read_header(file, checks)
        IN  IF o.result # "running" THEN Abort(o.result)
            ELSE /\ vpk' = o.vpk
                 /\ pos' = o.pos
                 /\ wrapped' = o.wrapped
                 /\ pc' = "ext"
                 /\ UNCHANGED <<dir_path, file, ext, path, result, parsed>>
    /\ UNCHANGED <<keyVars, cstring, lookup, got>>

\* lines 167-173 and 234-236: the extension loop's read, or the end of the tree
ReadExt ==
    /\ pc = "ext"
    /\ LET s == read_cstring(file, pos)
       IN  IF ~s.ok THEN Abort(s.err)
           ELSE IF s.string = <<>>
                THEN /\ vpk' = [vpk EXCEPT !.data = file]
                     /\ result' = "Ok"
                     /\ pc' = "done"
                     /\ pos' = s.pos
                     /\ UNCHANGED <<dir_path, file, ext, path, wrapped, parsed>>
           ELSE /\ ext' = [str |-> s.string, ext |-> from_ext_str(s.string)]
                /\ pos' = s.pos
                /\ pc' = "path"
                /\ UNCHANGED <<dir_path, file, vpk, path, result, wrapped, parsed>>
    /\ UNCHANGED <<keyVars, cstring, lookup, got>>

\* lines 175-191: the directory loop's read
ReadPath ==
    /\ pc = "path"
    /\ LET s == read_cstring(file, pos)
       IN  IF ~s.ok THEN Abort(s.err)
           ELSE IF s.string = <<>>
                THEN /\ pc' = "ext"
                     /\ pos' = s.pos
                     /\ UNCHANGED <<dir_path, file, vpk, ext, path, result, wrapped, parsed>>
           ELSE /\ path' = [str |-> s.string, path |-> dir_of_path(s.string)]
                /\ pos' = s.pos
                /\ pc' = "name"
                /\ UNCHANGED <<dir_path, file, vpk, ext, result, wrapped, parsed>>
    /\ UNCHANGED <<keyVars, cstring, lookup, got>>

\* lines 193-230: one turn of the filename loop
ReadName ==
    /\ pc = "name"
    /\ \E checks \in BOOLEAN :
        /\ checks => ~wrapped
        /\ \E o \in {read_entry(file, pos, vpk, ext.ext, path.path, checks, dir_path)} :
               IF o.result # "running" THEN Abort(o.result)
               ELSE IF o.last
                    THEN /\ pc' = "path"
                         /\ pos' = o.pos
                         /\ UNCHANGED <<dir_path, file, vpk, ext, path, result, wrapped, parsed>>
               ELSE /\ vpk' = [vpk EXCEPT !.tree = o.tree]
                    /\ pos' = o.pos
                    /\ wrapped' = (wrapped \/ o.wrapped)
                    /\ parsed' = Append(parsed, [ext |-> ext.str, dir |-> path.str,
                                                 name |-> o.name, entry |-> o.entry])
                    /\ UNCHANGED <<dir_path, file, pc, ext, path, result>>
    /\ UNCHANGED <<keyVars, cstring, lookup, got>>

(***************************************************************************)
(* src/src/entry.rs: VPKEntry::get and its variants                        *)
(***************************************************************************)
\* most bytes of a data file of the model
MaxDataLen == 4

\* the data files: byte i (0-based) of a data file is 10 + i
DataFiles == {[i \in 1..n |-> 9 + i] : n \in 0..MaxDataLen}

\* the readers a caller can supply: a data file and a position in it, and two readers
\* on the longest data file whose seek, or whose read, returns an error
Readers ==
    {[content |-> c, position |-> U32Of(p), fault |-> "none"] :
        c \in DataFiles, p \in 0..MaxDataLen}
    \cup {[content |-> [i \in 1..MaxDataLen |-> 9 + i], position |-> U32Of(0), fault |-> f] :
            f \in {"seek", "read"}}

\* one operation of a retrieval on the world outside the archive: a call of the
\* provider, an open of a path, a seek or a read on the caller's reader or the file
Io(op, on, arg) == [op |-> op, on |-> on, arg |-> arg]

\* File::open(archive_path): disk is what the file system holds at the path, the
\* content of a file or nothing
File_open(archive_path, disk) ==
    IF disk.some
    THEN [ok |-> TRUE, reader |-> [content |-> disk.v, position |-> U32Of(0), fault |-> "none"]]
    ELSE [ok |-> FALSE, reader |-> None]

\* a seek that leaves the reader where it is
seek_nowhere(reader, offset) == [ok |-> reader.fault # "seek", reader |-> reader]

\* Seek::seek(SeekFrom::Start(offset)), offset a u32
seek_Start(reader, offset) ==
    [ok |-> reader.fault # "seek", reader |-> [reader EXCEPT !.position = offset]]

\* a read that returns the bytes there are when there are fewer than n
Read_read_available(reader, n) ==
    IF reader.fault = "read" THEN [out |-> "Err(read)", bytes |-> <<>>]
    ELSE IF reader.position.hi > 0 \/ reader.position.lo >= Len(reader.content)
         THEN [out |-> "Ok", bytes |-> <<>>]
    ELSE LET last == IF n.hi > 0 \/ reader.position.lo + n.lo > Len(reader.content)
                     THEN Len(reader.content)
                     ELSE reader.position.lo + n.lo
         IN  [out |-> "Ok", bytes |-> SubSeq(reader.content, reader.position.lo + 1, last)]

\* Read::read_exact of n bytes (n a u32) at the reader's position
Read_read_exact(reader, n) ==
    IF reader.fault = "read" THEN [out |-> "Err(read)", bytes |-> <<>>]
    ELSE IF /\ reader.position.hi = 0
            /\ n.hi = 0
            /\ reader.position.lo + n.lo <= Len(reader.content)
         THEN [out |-> "Ok",
               bytes |-> SubSeq(reader.content, reader.position.lo + 1,
                                reader.position.lo + n.lo)]
    ELSE [out |-> "Err(UnexpectedEof)", bytes |-> <<>>]

\* VPKEntry::preload_interval
preload_interval(entry) ==
    [start |-> entry.preload_start,
     end |-> entry.preload_start + entry.dir_entry.preload_length]

\* VPKEntry::get_with_file: reader is the caller's Option<R>, disk what File::open
\* finds when there is none.  The path opened is the one VPK::read derived for the
\* entry's archive index (vpk.rs:211-216).  The result, the bytes and the operations
\* made on the way.
get_with_file(entry, parent, reader, disk) ==
    IF entry.dir_entry.archive_index = INLINE_INDEX
    THEN LET range == preload_interval(entry)
         IN  IF range.end > Len(parent.data)
             THEN [out |-> "panic", bytes |-> <<>>, io |-> <<>>]
             ELSE [out |-> "Ok", bytes |-> SubSeq(parent.data, range.start + 1, range.end),
                   io |-> <<>>]
    ELSE LET on == IF reader.some THEN "reader" ELSE "file"
             opened == IF reader.some THEN [ok |-> TRUE, reader |-> reader.v]
                       ELSE File_open(entry.archive_path, disk)
             io_open == IF reader.some THEN <<>>
                        ELSE <<Io("open", "file", entry.archive_path)>>
             sought == seek_Start(opened.reader, entry.dir_entry.archive_offset)
             io_seek == io_open \o <<Io("seek", on, entry.dir_entry.archive_offset)>>
             read == Read_read_exact(sought.reader, entry.dir_entry.file_length)
         IN  IF ~opened.ok THEN [out |-> "Err(open)", bytes |-> <<>>, io |-> io_open]
             ELSE IF ~sought.ok THEN [out |-> "Err(seek)", bytes |-> <<>>, io |-> io_seek]
             ELSE [out |-> read.out, bytes |-> read.bytes,
                   io |-> io_seek \o <<Io("read_exact", on, entry.dir_entry.file_length)>>]

\* VPKEntry::get
VPKEntry_get(entry, parent, disk) == get_with_file(entry, parent, None, disk)

\* a get_with_files that never asks the provider
get_with_files_unasked(entry, parent, prov, disk) == VPKEntry_get(entry, parent, disk)

\* a get_with_files that asks the provider for inline entries too
get_with_files_always_asking(entry, parent, prov, disk) ==
    LET asked == <<Io("vpk_reader", "provider", entry.dir_entry.archive_index)>>
        r == get_with_file(entry, parent, prov.reader, disk)
    IN  IF ~prov.ok THEN [out |-> "Err(provider)", bytes |-> <<>>, io |-> asked]
        ELSE [r EXCEPT !.io = asked \o @]

\* VPKEntry::get_with_files: prov is what prov.vpk_reader(archive_index) returns
get_with_files(entry, parent, prov, disk) ==
    IF entry.dir_entry.archive_index = INLINE_INDEX THEN VPKEntry_get(entry, parent, disk)
    ELSE LET asked == <<Io("vpk_reader", "provider", entry.dir_entry.archive_index)>>
             r == get_with_file(entry, parent, prov.reader, disk)
         IN  IF ~prov.ok THEN [out |-> "Err(provider)", bytes |-> <<>>, io |-> asked]
             ELSE [r EXCEPT !.io = asked \o @]

\* the entries the tables of a tree hold
VPKTree_entries(tree) ==
    UNION {{tree.fixed[t][i].value : i \in 1..Len(tree.fixed[t])} : t \in FixedExt}
        \cup UNION {{tree.other[o].value[i].value : i \in 1..Len(tree.other[o].value)} :
                      o \in 1..Len(tree.other)}

(***************************************************************************)
(* The archive in use: lookups and retrievals after a successful load      *)
(***************************************************************************)
\* u8::to_ascii_uppercase
to_ascii_uppercase(b) == IF b \in 97..122 THEN b - 32 ELSE b

RECURSIVE CasePermutations(_)
\* the strings that differ from s only in the case of ASCII letters
CasePermutations(s) ==
    IF s = <<>> THEN {<<>>}
    ELSE {<<c>> \o t : c \in {to_ascii_lowercase(Head(s)), to_ascii_uppercase(Head(s))},
                       t \in CasePermutations(Tail(s))}

\* the spellings a caller gives an extension: as written, lowercase, uppercase
ExtSpellings(s) ==
    {s, str_to_ascii_lowercase(s), [i \in 1..Len(s) |-> to_ascii_uppercase(s[i])]}

\* the four lookups of VPK / VPKTree
Methods == {"get", "get_ignore_case", "getf", "getf_ignore_case"}

\* the lookup by its name, over the tree of the archive
VPK_lookup(method, v, e, dir, filename) ==
    CASE method = "get" -> VPKTree_get(v.tree, e, dir, filename)
      [] method = "get_ignore_case" -> VPKTree_get_ignore_case(v.tree, e, dir, filename)
      [] method = "getf" -> VPKTree_getf(v.tree, e, dir, filename)
      [] method = "getf_ignore_case" -> VPKTree_getf_ignore_case(v.tree, e, dir, filename)

\* an archive that loses its buffer when it is borrowed
shared_borrow_taking(v) == [v EXCEPT !.data = <<>>]

\* `&self` / `parent: &'v VPK`: the archive behind a shared borrow, after the call
shared_borrow(v) == v

\* a caller looks a file up, once, or among other calls on an archive in SharedFiles: the extension through Ext::from_ext_str, the directory
\* and the filename spelled in any case of the strings of the file, or the root ""
Lookup ==
    /\ pc = "done"
    /\ result = "Ok"
    /\ IF file \in SharedFiles THEN TRUE ELSE lookup = NoLookup /\ got = NoGet
    /\ \E method \in Methods, i \in 1..Len(parsed), j \in 1..Len(parsed), k \in 1..Len(parsed) :
        \E e \in ExtSpellings(parsed[i].ext),
           d \in CasePermutations(parsed[j].dir) \cup {<<>>},
           f \in CasePermutations(parsed[k].name) :
            lookup' = [method |-> method, ext |-> e, dir |-> d, filename |-> f,
                       found |-> VPK_lookup(method, vpk, from_ext_str(e), d, f)]
    /\ vpk' = shared_borrow(vpk)
    /\ UNCHANGED <<keyVars, cstring, dir_path, file, pos, pc, ext, path, result, wrapped, parsed, got>>

\* the ways a caller retrieves an entry's bytes
GetCalls ==
    {[fn |-> "get", prov |-> "none", reader |-> None, disk |-> dk] :
        dk \in {None} \cup {Some(c) : c \in DataFiles}}
    \cup {[fn |-> "get_with_file", prov |-> "none", reader |-> None, disk |-> dk] :
        dk \in {None} \cup {Some(c) : c \in DataFiles}}
    \cup {[fn |-> "get_with_file", prov |-> "none", reader |-> Some(r), disk |-> None] :
        r \in Readers}
    \cup {[fn |-> "get_with_files", prov |-> "Err", reader |-> None, disk |-> None]}
    \cup {[fn |-> "get_with_files", prov |-> "Ok(None)", reader |-> None, disk |-> dk] :
        dk \in {None} \cup {Some(c) : c \in DataFiles}}
    \cup {[fn |-> "get_with_files", prov |-> "Ok(Some)", reader |-> Some(r), disk |-> None] :
        r \in Readers}

\* the retrievals made one after another on the archives in SharedFiles: with no data
\* file on disk, with the longest one, through a reader on it, with a failing provider
SharedCalls ==
    LET longest == [i \in 1..MaxDataLen |-> 9 + i]
    IN  {[fn |-> "get", prov |-> "none", reader |-> None, disk |-> None],
         [fn |-> "get", prov |-> "none", reader |-> None, disk |-> Some(longest)],
         [fn |-> "get_with_file", prov |-> "none",
          reader |-> Some([content |-> longest, position |-> U32Of(0), fault |-> "none"]),
          disk |-> None],
         [fn |-> "get_with_files", prov |-> "Err", reader |-> None, disk |-> None]}

\* the call by its name
VPKEntry_call(entry, parent, call) ==
    CASE call.fn = "get" -> VPKEntry_get(entry, parent, call.disk)
      [] call.fn = "get_with_file" -> get_with_file(entry, parent, call.reader, call.disk)
      [] call.fn = "get_with_files" ->
            get_with_files(entry, parent,
                           [ok |-> call.prov # "Err", reader |-> call.reader], call.disk)

\* a caller retrieves the bytes of an entry of the tree, once, or among other calls on
\* an archive in SharedFiles; after is what the retrieval before it returned
Get ==
    /\ pc = "done"
    /\ result = "Ok"
    /\ IF file \in SharedFiles THEN TRUE ELSE lookup = NoLookup /\ got = NoGet
    /\ \E entry \in VPKTree_entries(vpk.tree),
          call \in IF file \in SharedFiles THEN SharedCalls ELSE GetCalls :
        got' = [entry |-> entry, call |-> call, after |-> got.out]
                   @@ VPKEntry_call(entry, vpk, call)
    /\ vpk' = shared_borrow(vpk)
    /\ UNCHANGED <<keyVars, cstring, dir_path, file, pos, pc, ext, path, result, wrapped, parsed, lookup>>

Next ==
    \/ ReadHeader
    \/ ReadExt
    \/ ReadPath
    \/ ReadName
    \/ Lookup
    \/ Get

Spec == Init /\ [][Next]_vars

\* the files VPK::read is run to its end on: trees of up to MaxEntries records, the
\* files of one record, the files that differ in their headers, the files cut short
ReadFiles ==
    {FileV1(1, es) :
        es \in StrUpTo({External(S_vmt, S_a, S_a), Inline(S_vmt, S_a, S_b, <<98>>)}, MaxEntries)}
        \cup {FileV1(1, <<e>>) : e \in LoneEntries}
        \cup {FileV2(<<e>>) : e \in LoneEntries}
        \cup HeaderFiles
        \cup TruncatedFiles

\* std::fs::read(dir_path) has returned one of these files
InitRead ==
    /\ file \in ReadFiles
    /\ dir_path = DefaultPath
    /\ pos = 0
    /\ pc = "header"
    /\ vpk = None
    /\ ext = None
    /\ path = <<>>
    /\ result = "running"
    /\ wrapped = FALSE
    /\ parsed = <<>>
    /\ lookup = NoLookup
    /\ got = NoGet
    /\ KeysIdle
    /\ cstring = NoCstring

\* VPK::read alone, run to its end: a call that has not returned takes its next step
NextRead ==
    \/ ReadHeader
    \/ ReadExt
    \/ ReadPath
    \/ ReadName

SpecRead == InitRead /\ [][NextRead]_vars /\ WF_vars(NextRead)

(***************************************************************************)
(* The key shapes applied to a stored key, as the tests' a_eq / a_neq do   *)
(* (access.rs:310-328)                                                     *)
(***************************************************************************)
NoProbe == [shape |-> "none"]

InitKeys ==
    /\ ReadIdle
    /\ key \in {StoredKey(d, f) : d \in StrUpTo(KeyBytes, MaxDirLen),
                                  f \in StrUpTo(KeyBytes, MaxNameLen)}
    /\ query \in [dir : StrUpTo(KeyBytes, MaxPrefixLen),
                  filename : StrUpTo(KeyBytes, MaxBigLen)]
    /\ probe = NoProbe
    /\ cstring = NoCstring

ProbeDirFileRef ==
    /\ probe = NoProbe
    /\ LET q == DirFileRef_new(query.dir, query.filename)
       IN  probe' = [shape |-> "DirFileRef", q |-> q,
                     equivalent |-> DirFileRef_equivalent(q, key),
                     qhash |-> DirFileRef_hash(q), khash |-> DirFile_hash(key)]
    /\ UNCHANGED <<key, query>>
    /\ UNCHANGED <<readVars, cstring>>

ProbeDirFileRefLowercase ==
    /\ probe = NoProbe
    /\ LET q == DirFileRefLowercase_new(query.dir, query.filename)
       IN  probe' = [shape |-> "DirFileRefLowercase", q |-> q,
                     equivalent |-> DirFileRefLowercase_equivalent(q, key),
                     qhash |-> DirFileRefLowercase_hash(q), khash |-> DirFile_hash(key)]
    /\ UNCHANGED <<key, query>>
    /\ UNCHANGED <<readVars, cstring>>

ProbeDirFileBigRef ==
    /\ probe = NoProbe
    /\ LET q == DirFileBigRef_new(query.dir, query.filename)
       IN  probe' = [shape |-> "DirFileBigRef", q |-> q,
                     equivalent |-> DirFileBigRef_equivalent(q, key),
                     qhash |-> DirFileBigRef_hash(q), khash |-> DirFile_hash(key)]
    /\ UNCHANGED <<key, query>>
    /\ UNCHANGED <<readVars, cstring>>

ProbeDirFileBigRefLowercase ==
    /\ probe = NoProbe
    /\ LET q == DirFileBigRefLowercase_new(query.dir, query.filename)
       IN  probe' = [shape |-> "DirFileBigRefLowercase", q |-> q,
                     equivalent |-> DirFileBigRefLowercase_equivalent(q, key),
                     qhash |-> DirFileBigRefLowercase_hash(q), khash |-> DirFile_hash(key)]
    /\ UNCHANGED <<key, query>>
    /\ UNCHANGED <<readVars, cstring>>

NextKeys ==
    \/ ProbeDirFileRef
    \/ ProbeDirFileRefLowercase
    \/ ProbeDirFileBigRef
    \/ ProbeDirFileBigRefLowercase

SpecKeys == InitKeys /\ [][NextKeys]_vars

(***************************************************************************)
(* Claims about the key shapes (SpecKeys)                                  *)
(***************************************************************************)
BigShapes == {"DirFileBigRef", "DirFileBigRefLowercase"}
RefShapes == {"DirFileRef", "DirFileRefLowercase"}

\* C1: a big-ref query (DirFileBigRef or DirFileBigRefLowercase) that is equivalent to
\* a stored DirFile key writes the same bytes to the hasher as the stored key does.
C1_BigRefHashMatchesKey ==
    (probe.shape \in BigShapes /\ probe.equivalent) => probe.qhash = probe.khash

\* C2: a DirFileRef or DirFileRefLowercase query that is equivalent to a stored DirFile
\* key writes the same bytes to the hasher as the stored key does.
C2_RefHashMatchesKey ==
    (probe.shape \in RefShapes /\ probe.equivalent) => probe.qhash = probe.khash

\* the directory a big-ref query of prefix and extra_dir stands for
BigRefDir(prefix, extra_dir) ==
    IF extra_dir = <<>> THEN prefix
    ELSE IF prefix = <<>> THEN extra_dir
    ELSE prefix \o <<SLASH>> \o extra_dir

\* extra_dir and name are big_filename split at its last '/'
SplitAtLastSlash(big_filename, extra_dir, name) ==
    /\ \A i \in 1..Len(name) : name[i] # SLASH
    /\ \/ big_filename = extra_dir \o <<SLASH>> \o name
       \/ /\ extra_dir = <<>>
          /\ big_filename = name

\* C5: a big-ref query splits big_filename at its last '/' into extra_dir and name, and
\* is equivalent to a stored key exactly when, ignoring ASCII case, name matches the
\* key's filename and the key's dir matches prefix (extra_dir empty), extra_dir (prefix
\* empty) or prefix "/" extra_dir (otherwise).
C5_BigRefEquivalentIffSplitMatches ==
    probe.shape \in BigShapes =>
        /\ SplitAtLastSlash(query.filename, probe.q.extra_dir, probe.q.filename)
        /\ probe.q.dir = query.dir
        /\ probe.equivalent <=>
               /\ eq_ignore_ascii_case(probe.q.filename, DirFile_filename(key))
               /\ eq_ignore_ascii_case(DirFile_dir(key),
                                       BigRefDir(probe.q.dir, probe.q.extra_dir))

\* C6: a big-ref query whose trailing path component differs from the stored key's
\* filename in more than ASCII letter case is never equivalent to the stored key.
C6_BigRefFilenameMustMatch ==
    (/\ probe.shape \in BigShapes
     /\ ~eq_ignore_ascii_case(probe.q.filename, DirFile_filename(key)))
        => ~probe.equivalent

\* C6 witness: the directories match through a separating '/', only the filename differs
C6_Witness ==
    /\ probe.shape \in BigShapes
    /\ probe.q.dir # <<>>
    /\ probe.q.extra_dir # <<>>
    /\ DirFile_dir(key) = probe.q.dir \o <<SLASH>> \o probe.q.extra_dir
    /\ Len(probe.q.filename) = Len(DirFile_filename(key))
    /\ ~eq_ignore_ascii_case(probe.q.filename, DirFile_filename(key))
    /\ ~probe.equivalent

(***************************************************************************)
(* Claims about loading, lookup and retrieval (Spec)                       *)
(***************************************************************************)
\* the directory a record is written under, the single space standing for ""
WrittenDir(r) == IF r.dir = <<32>> THEN <<>> ELSE r.dir

\* two records of the file have the same extension, directory and filename, case apart
SameIdentity(r, s) ==
    /\ from_ext_str(r.ext) = from_ext_str(s.ext)
    /\ eq_ignore_ascii_case(WrittenDir(r), WrittenDir(s))
    /\ eq_ignore_ascii_case(r.name, s.name)

\* record i of the file has been replaced by a later duplicate
Replaced(i) == \E j \in (i + 1)..Len(parsed) : SameIdentity(parsed[i], parsed[j])

\* C3: after a successful load, the exact lookup (getf, get) called with the extension,
\* the directory ("" for the single space) and the filename exactly as the file writes
\* them returns the record read under them, unless a later duplicate replaced it.
C3_ExactLookupAsWritten ==
    lookup.method \in {"getf", "get"} =>
        \A i \in 1..Len(parsed) :
            (/\ lookup.ext = parsed[i].ext
             /\ lookup.dir = WrittenDir(parsed[i])
             /\ lookup.filename = parsed[i].name
             /\ ~Replaced(i))
                => lookup.found = Some(parsed[i].entry)

\* the lookup names record i of the file, case apart
NamesIgnoringCase(i) ==
    /\ from_ext_str(lookup.ext) = from_ext_str(parsed[i].ext)
    /\ eq_ignore_ascii_case(lookup.dir, WrittenDir(parsed[i]))
    /\ eq_ignore_ascii_case(lookup.filename, parsed[i].name)
    /\ ~Replaced(i)

\* C4 as stated: both case-insensitive lookups (getf_ignore_case, get_ignore_case)
\* return the record for every spelling of its directory and filename that differs
\* only in the case of ASCII letters.
C4_IgnoreCaseLookupFinds ==
    lookup.method \in {"getf_ignore_case", "get_ignore_case"} =>
        \A i \in 1..Len(parsed) :
            NamesIgnoringCase(i) => lookup.found = Some(parsed[i].entry)

\* C4 amended: getf_ignore_case returns the record for every such spelling, and
\* get_ignore_case does when the filename holds no '/' (it splits its filename
\* argument at the last '/', so a filename holding one is looked for elsewhere).
C4_IgnoreCaseLookupFindsUnlessSlash ==
    lookup.method \in {"getf_ignore_case", "get_ignore_case"} =>
        \A i \in 1..Len(parsed) :
            (/\ NamesIgnoringCase(i)
             /\ lookup.method = "get_ignore_case"
                    => \A n \in 1..Len(parsed[i].name) : parsed[i].name[n] # SLASH)
                => lookup.found = Some(parsed[i].entry)

\* get_ignore_case has found a record under a spelling in another case
C4_Witness ==
    /\ lookup.method = "get_ignore_case"
    /\ lookup.found.some
    /\ \E i \in 1..Len(parsed) :
        /\ NamesIgnoringCase(i)
        /\ lookup.dir # WrittenDir(parsed[i])
        /\ lookup.filename # parsed[i].name
        /\ lookup.found = Some(parsed[i].entry)

\* the well-formed files of one extension, one directory and one inline entry of
\* payload p
RoundTripFiles(p) ==
    {FileV1(0, <<Inline(S_vmt, S_a, S_b, p)>>), FileV1(1, <<Inline(S_vmt, S_a, S_b, p)>>),
     FileV2(<<Inline(S_vmt, S_a, S_b, p)>>)}

\* C7: a well-formed file of one extension, one directory and one inline entry with n
\* payload bytes loads, and get on the entry returns the n payload bytes written.
C7_InlineRoundTrip ==
    \A p \in Payloads :
        file \in RoundTripFiles(p) =>
            /\ pc = "done" => result = "Ok"
            /\ got # NoGet => (got.out = "Ok" /\ got.bytes = p)

\* the record the filename loop is about to read, if a name and 18 bytes are there
NextRecord ==
    LET n == read_cstring(file, pos)
        r == read_exact(file, n.pos, SIZE_OF_VPKDirectoryEntry)
    IN  IF n.ok /\ n.string # <<>> /\ r.ok THEN Some(VPKDirectoryEntry_read_le(r.bytes))
        ELSE None

\* C8: when the record the filename loop reads has a terminator other than 0xFFFF,
\* VPK::read returns MalformedIndex and no archive, whatever was read before.
C8_BadTerminatorIsMalformedIndex ==
    [][(pc = "name" /\ NextRecord.some /\ NextRecord.v.suffix # 65535)
          => (result' = "MalformedIndex" /\ pc' = "done" /\ vpk' = None)]_vars

\* a load has ended with MalformedIndex after a valid record
C8_Witness == result = "MalformedIndex" /\ vpk = None /\ Len(parsed) > 0

\* the header errors
HeaderErrors == {"InvalidSignature", "UnsupportedVersion", "HashSizeMismatch"}

\* C9: once the header is read: a signature other than 0x55AA1234 gives
\* InvalidSignature; else a version above 2 gives UnsupportedVersion; else, for version
\* 2, a self-hash length other than 48 gives HashSizeMismatch; else none of the three.
C9_HeaderValidation ==
    (pc # "header" /\ Len(file) >= 12) =>
        LET header == VPKHeader_read_le(SubSeq(file, 1, 12))
            header_v2 == VPKHeaderV2_read_le(SubSeq(file, 13, 28))
        IN  IF header.signature # U32(21930, 4660) THEN result = "InvalidSignature"
            ELSE IF header.version.hi > 0 \/ header.version.lo > 2
                 THEN result = "UnsupportedVersion"
            ELSE IF header.version.lo = 2 /\ Len(file) >= 28
                    /\ header_v2.self_hashes_length # U32Of(48)
                 THEN result = "HashSizeMismatch"
            ELSE result \notin HeaderErrors

\* a version 2 header with a good signature has been refused for its self-hash length
C9_Witness == result = "HashSizeMismatch"

\* C10: a successful get of an entry that is not inline returns file_length bytes, the
\* bytes [archive_offset, archive_offset + file_length) of the data file read (the
\* opened file or the caller's reader), wherever the reader stood before the call.
C10_ExternalBytes ==
    (got.out = "Ok" /\ got.entry.dir_entry.archive_index # 32767) =>
        LET content == IF got.call.reader.some THEN got.call.reader.v.content
                       ELSE got.call.disk.v
            offset == got.entry.dir_entry.archive_offset
            length == got.entry.dir_entry.file_length
        IN  /\ offset.hi = 0
            /\ length.hi = 0
            /\ Len(got.bytes) = length.lo
            /\ offset.lo + length.lo <= Len(content)
            /\ got.bytes = SubSeq(content, offset.lo + 1, offset.lo + length.lo)

\* a get through a caller's reader that stood elsewhere has returned bytes
C10_Witness ==
    /\ got.out = "Ok"
    /\ got.entry.dir_entry.archive_index # 32767
    /\ got.call.reader.some
    /\ got.call.reader.v.position # got.entry.dir_entry.archive_offset
    /\ got.bytes # <<>>

\* the I/O errors of a retrieval
IoErrors == {"Err(open)", "Err(seek)", "Err(read)", "Err(UnexpectedEof)", "Err(provider)"}

\* the retrieval made was of an inline entry, or of an entry in a data file
GotInline == got.out # "none" /\ got.entry.dir_entry.archive_index = 32767
GotExternal == got.out # "none" /\ got.entry.dir_entry.archive_index # 32767

\* the operations of kind op among those the retrieval made
GotOps(op) == {k \in 1..Len(got.io) : got.io[k].op = op}

\* C11: a retrieval from a data file never truncates silently: when the open fails, the
\* seek fails or fewer than file_length bytes follow archive_offset, get, get_with_file
\* and get_with_files return an I/O error, and what they return with Ok is never
\* shorter than file_length.
C11_NoSilentTruncation ==
    GotExternal =>
        LET offset == got.entry.dir_entry.archive_offset
            length == got.entry.dir_entry.file_length
            source == IF got.call.reader.some THEN got.call.reader
                      ELSE IF got.call.disk.some
                           THEN Some([content |-> got.call.disk.v, fault |-> "none"])
                      ELSE None
            enough == /\ source.some
                      /\ offset.hi = 0
                      /\ length.hi = 0
                      /\ offset.lo + length.lo <= Len(source.v.content)
            failing == ~source.some \/ source.v.fault = "seek" \/ ~enough
        IN  /\ failing => got.out \in IoErrors
            /\ got.out \in IoErrors \cup {"Ok"}
            /\ got.out = "Ok" => (length.hi = 0 /\ Len(got.bytes) = length.lo)

\* a read through a reader that holds too few bytes has returned an error
C11_Witness ==
    /\ GotExternal
    /\ got.call.reader.some
    /\ got.call.reader.v.fault = "none"
    /\ got.call.reader.v.content # <<>>
    /\ got.out = "Err(UnexpectedEof)"

\* the path with the "dir." of its file name, and nothing else, replaced by the index
OwnSuffixReplaced(p, index) ==
    LET slashes == {i \in 1..Len(p) : p[i] = SLASH}
        cut == IF slashes = {} THEN 0 ELSE CHOOSE i \in slashes : \A j \in slashes : j <= i
    IN  SubSeq(p, 1, cut)
            \o str_replace(SubSeq(p, cut + 1, Len(p)), S_dir_dot, format_03_dot(index))

\* C12: the data file path recorded for a record of archive index i is the directory
\* file's path with only its own "dir" suffix replaced by i as three zero-padded
\* digits; the directories above it are unchanged.
C12_ArchivePathReplacesOwnSuffix ==
    \A i \in 1..Len(parsed) :
        parsed[i].entry.archive_path
            = OwnSuffixReplaced(dir_path, parsed[i].entry.dir_entry.archive_index)

\* C13: get_with_files on an entry in a data file asks the provider once, for the
\* entry's archive index; with a reader returned it reads from that reader and opens
\* nothing; with None it opens the derived path itself; with an error it returns it.
C13_ProviderSemantics ==
    (GotExternal /\ got.call.fn = "get_with_files") =>
        /\ Cardinality(GotOps("vpk_reader")) = 1
        /\ got.io[1].op = "vpk_reader"
        /\ got.io[1].arg = got.entry.dir_entry.archive_index
        /\ got.call.prov = "Err" => (got.out = "Err(provider)" /\ Len(got.io) = 1)
        /\ got.call.prov = "Ok(Some)" =>
            /\ GotOps("open") = {}
            /\ \A k \in 2..Len(got.io) : got.io[k].on = "reader"
            /\ got.out = "Ok" =>
                got.bytes = SubSeq(got.call.reader.v.content,
                                   got.entry.dir_entry.archive_offset.lo + 1,
                                   got.entry.dir_entry.archive_offset.lo + Len(got.bytes))
        /\ got.call.prov = "Ok(None)" =>
            /\ Len(got.io) >= 2
            /\ got.io[2].op = "open"
            /\ got.io[2].arg = got.entry.archive_path
            /\ \A k \in 2..Len(got.io) : got.io[k].on = "file"

\* the provider has declined and get_with_files has read the file it opened itself
C13_Witness ==
    /\ GotExternal
    /\ got.call.fn = "get_with_files"
    /\ got.call.prov = "Ok(None)"
    /\ got.out = "Ok"
    /\ got.bytes # <<>>

NamesIdentity(i) ==
    /\ lookup.method # "none"
    /\ eq_ignore_ascii_case(lookup.ext, parsed[i].ext)
    /\ eq_ignore_ascii_case(lookup.dir, WrittenDir(parsed[i]))
    /\ eq_ignore_ascii_case(lookup.filename, parsed[i].name)

\* the last record of the file with the identity of record i
LastOf(i) ==
    CHOOSE j \in i..Len(parsed) : (j = i \/ SameIdentity(parsed[i], parsed[j])) /\ ~Replaced(j)

\* the string holds no '/'
NoSlash(s) == \A n \in 1..Len(s) : s[n] # SLASH

C16_RootDirectory ==
    \A i \in 1..Len(parsed) :
        (/\ parsed[i].dir = <<32>>
         /\ ~Replaced(i)
         /\ lookup.method # "none"
         /\ eq_ignore_ascii_case(lookup.ext, parsed[i].ext)
         /\ eq_ignore_ascii_case(lookup.filename, parsed[i].name))
            => /\ (/\ lookup.dir = <<>>
                   /\ lookup.method \in {"getf_ignore_case", "get_ignore_case"}
                   /\ lookup.method = "get_ignore_case" => NoSlash(lookup.filename))
                      => lookup.found = Some(parsed[i].entry)
               /\ (/\ lookup.dir = <<>>
                   /\ lookup.method \in {"getf", "get"}
                   /\ lookup.filename = str_to_ascii_lowercase(parsed[i].name)
                   /\ lookup.method = "get" => NoSlash(lookup.filename))
                      => lookup.found = Some(parsed[i].entry)
               /\ lookup.dir = <<32>> => lookup.found = None

\* a record written under " " has been found by the big-ref lookup with prefix ""
C16_Witness ==
    \E i \in 1..Len(parsed) :
        /\ parsed[i].dir = <<32>>
        /\ lookup.method = "get"
        /\ lookup.dir = <<>>
        /\ lookup.found = Some(parsed[i].entry)

\* C17: extension strings that differ only in the case of ASCII letters map to the
\* same Ext, so a record read under any spelling is in the table of the lowercased
\* extension (its fixed slot, or the table of other extensions under the lowercased
\* string), and a lookup through from_ext_str of any spelling reaches it.
C17_ExtCaseInsensitive ==
    /\ pc \in {"path", "name"} =>
        \A s \in CasePermutations(ext.str) : from_ext_str(s) = ext.ext
    /\ (pc = "done" /\ result = "Ok") =>
        \A i \in 1..Len(parsed) :
            LET low == str_to_ascii_lowercase(parsed[i].ext)
                last == parsed[LastOf(i)].entry
                values(map) == {map[k].value : k \in 1..Len(map)}
            IN  /\ IF \E t \in FixedExt : ExtStr[t] = low
                   THEN \E t \in FixedExt : ExtStr[t] = low /\ last \in values(vpk.tree.fixed[t])
                   ELSE \E o \in 1..Len(vpk.tree.other) :
                            /\ vpk.tree.other[o].key = low
                            /\ last \in values(vpk.tree.other[o].value)
                /\ (NamesIdentity(i) /\ lookup.method = "getf_ignore_case")
                        => lookup.found = Some(last)

\* a record has been found through a spelling of its extension in another case
C17_Witness ==
    \E i \in 1..Len(parsed) :
        /\ NamesIdentity(i)
        /\ lookup.ext # parsed[i].ext
        /\ parsed[i].ext # str_to_ascii_lowercase(parsed[i].ext)
        /\ lookup.found = Some(parsed[i].entry)

\* the errors VPK::read returns for a tree that breaks the format
TypedErrors == {"ReadError(UnexpectedEof)", "ReadError(InvalidData)", "MalformedIndex"}

\* the bytes from the cursor to the end of the file hold a null byte
HasNull == \E i \in (pos + 1)..Len(file) : file[i] = 0

\* the bytes from the cursor up to the first null byte
StringAtCursor ==
    LET end == CHOOSE i \in (pos + 1)..Len(file) :
                   file[i] = 0 /\ \A j \in (pos + 1)..(i - 1) : file[j] # 0
    IN  SubSeq(file, pos + 1, end - 1)

\* what the scan is about to read breaks the format: a string without its null byte,
\* text that is not valid, or after a filename a record cut short or with a
\* terminator other than 0xFFFF
Violation ==
    /\ pc \in {"ext", "path", "name"}
    /\ \/ ~HasNull
       \/ \E n \in 1..Len(StringAtCursor) : StringAtCursor[n] >= 128
       \/ /\ pc = "name"
          /\ StringAtCursor # <<>>
          /\ LET after == pos + Len(StringAtCursor) + 1
             IN  \/ after + 18 > Len(file)
                 \/ file[after + 17] # 255
                 \/ file[after + 18] # 255

\* C18: VPK::read returns an archive only when the scan reaches the empty string that
\* ends the extension loop; at the first string without null byte, invalid text,
\* record cut short or wrong terminator it returns a typed error and no archive, and
\* what was read before is not exposed.
C18_NoPartialLoad ==
    /\ []((pc = "done" /\ result # "Ok") => vpk = None)
    /\ [](result = "Ok" => (pc = "done" /\ vpk # None /\ vpk.data = file))
    /\ [][/\ Violation => (result' \in TypedErrors /\ vpk' = None /\ pc' = "done")
          /\ (result # "Ok" /\ result' = "Ok")
                => (pc = "ext" /\ HasNull /\ StringAtCursor = <<>>)]_vars

\* a load that had read a record has ended at a string without its null byte
C18_Witness == result = "ReadError(UnexpectedEof)" /\ vpk = None /\ Len(parsed) > 0

C20_NoOverflow == result # "panic" /\ ~wrapped

\* C21: a turn of the filename loop that reads a record takes the offset right after
\* the record's 18 bytes as preload_start and leaves the cursor preload_length bytes
\* further, where the next filename is read.
C21_PreloadSkipped ==
    [][Len(parsed') > Len(parsed) =>
          LET read == parsed'[Len(parsed')]
          IN  /\ read.entry.preload_start
                    = pos + Len(read.name) + 1 + SIZE_OF_VPKDirectoryEntry
              /\ pos' = read.entry.preload_start + read.entry.dir_entry.preload_length]_vars

\* C27: in an archive that VPK::read returned, the preload bytes of every entry stored
\* inline lie inside the directory buffer, and retrieving such an entry returns bytes:
\* it neither fails nor panics.
C27_InlineSliceInBounds ==
    (pc = "done" /\ result = "Ok") =>
        /\ \A entry \in VPKTree_entries(vpk.tree) :
                entry.dir_entry.archive_index = INLINE_INDEX =>
                    entry.preload_start + entry.dir_entry.preload_length <= Len(vpk.data)
        /\ GotInline => got.out = "Ok"

\* C24: once the header is read, header_length is the offset at which the tree is
\* parsed from: 12 for versions 0 and 1, and 28 for version 2, where the cursor is back
\* at 28 after the checksums, whatever the three lengths of the headers are.
C24_HeaderLength ==
    /\ [](vpk # None =>
            vpk.header_length = IF vpk.header.version = U32Of(2) THEN 28 ELSE 12)
    /\ [][(pc = "header" /\ pc' = "ext") => pos' = vpk'.header_length]_vars

\* a version 2 header with embedded data and chunk hashes has been read, and the tree
\* is about to be parsed
C24_Witness ==
    /\ pc = "ext"
    /\ parsed = <<>>
    /\ pos = 28
    /\ vpk.header_v2.some
    /\ vpk.header_v2.v.embed_chunk_length # U32Of(0)
    /\ vpk.header_v2.v.chunk_hashes_length # U32Of(0)

\* the stored key of the two strings of the query
OtherKey == StoredKey(query.dir, query.filename)

\* C25: the bytes DirFile::hash writes (lowercased directory, 0xFF, lowercased
\* filename, 0xFF) tell keys apart: for components without a byte 0xFF two stored keys
\* write the same bytes exactly when their directories and their filenames are equal
\* ignoring ASCII case, so ("ab", "c") and ("a", "bc") write different bytes.
C25_HashUnambiguous ==
    (/\ probe.shape \notin {"none", "idle"}
     /\ \A c \in {DirFile_dir(key), DirFile_filename(key), query.dir, query.filename} :
            \A i \in 1..Len(c) : c[i] # SEP)
        => ((probe.khash = DirFile_hash(OtherKey)) <=> DirFile_eq(key, OtherKey))

\* two keys whose components joined are the same string, split at different places,
\* have been hashed
C25_Witness ==
    /\ probe.shape \notin {"none", "idle"}
    /\ DirFile_dir(key) \o DirFile_filename(key) = query.dir \o query.filename
    /\ Len(DirFile_dir(key)) = Len(query.dir) + 1
    /\ Len(query.filename) = 2
    /\ probe.khash # DirFile_hash(OtherKey)

(***************************************************************************)
(* read_cstring alone, on a cursor over a buffer, as the tests call it     *)
(* (vpk.rs:665-683)                                                        *)
(***************************************************************************)
\* longest buffer read_cstring is called on
MaxBufLen == 4

\* the bytes of these buffers: the null byte, 'a', and 0xff, which no text holds
BufBytes == {0, 97, 255}

\* Cursor::new(data), moved to any position of the buffer or to its end
InitCstring ==
    /\ KeysIdle
    /\ file \in StrUpTo(BufBytes, MaxBufLen)
    /\ pos \in 0..Len(file)
    /\ pc = "cstring"
    /\ cstring = NoCstring
    /\ dir_path = <<>>
    /\ vpk = None
    /\ ext = None
    /\ path = <<>>
    /\ result = "idle"
    /\ wrapped = FALSE
    /\ parsed = <<>>
    /\ lookup = NoLookup
    /\ got = NoGet

\* read_cstring(&mut cursor): a first call, or the next one after a call that
\* returned a string
ReadCstring ==
    /\ pc = "cstring"
    /\ IF cstring.called THEN cstring.ok ELSE TRUE
    /\ LET r == read_cstring(file, pos)
       IN  /\ cstring' = [called |-> TRUE, start |-> pos, ok |-> r.ok,
                          string |-> IF r.ok THEN r.string ELSE <<>>,
                          err |-> IF r.ok THEN "none" ELSE r.err]
           /\ pos' = r.pos
    /\ UNCHANGED <<keyVars, dir_path, file, pc, vpk, ext, path, result, wrapped, parsed,
                   lookup, got>>

NextCstring == ReadCstring

SpecCstring == InitCstring /\ [][NextCstring]_vars

(***************************************************************************)
(* Claims about read_cstring (SpecCstring)                                 *)
(***************************************************************************)
\* the positions (0-based) of the null bytes at or after the start of the last call
NullsFromStart == {e \in cstring.start..(Len(file) - 1) : file[e + 1] = 0}

\* the position of the first of them
FirstNull == CHOOSE e \in NullsFromStart : \A n \in NullsFromStart : e <= n

\* the bytes from the start of the last call up to the first null byte
BeforeNull == SubSeq(file, cstring.start + 1, FirstNull)

\* these bytes are valid UTF-8: none of them is 0xff
ValidBeforeNull == \A i \in 1..Len(BeforeNull) : BeforeNull[i] # 255

\* C22: read_cstring on a buffer with no null byte at or after the cursor returns an
\* error of kind UnexpectedEof and leaves the cursor where it was; when the bytes
\* before the null byte are not valid UTF-8 it returns an error too, the cursor
\* unchanged.
C22_CstringErrors ==
    cstring.called =>
        /\ NullsFromStart = {} =>
                (~cstring.ok /\ cstring.err = "ReadError(UnexpectedEof)" /\ pos = cstring.start)
        /\ (NullsFromStart # {} /\ ~ValidBeforeNull) =>
                (~cstring.ok /\ pos = cstring.start)

\* a call after an earlier one has met bytes that are no text before a null byte
C22_Witness ==
    /\ cstring.called
    /\ cstring.start > 0
    /\ NullsFromStart # {}
    /\ ~ValidBeforeNull
    /\ cstring.err = "ReadError(InvalidData)"

\* C23: read_cstring with the cursor at p and the first null byte at or after p at e
\* returns the bytes [p, e), none when p = e, and leaves the cursor at e + 1.
C23_ReadsUpToNull ==
    (cstring.called /\ NullsFromStart # {}) =>
        /\ cstring.ok
        /\ cstring.string = BeforeNull
        /\ pos = FirstNull + 1

\* C23, for text: when the bytes [p, e) are valid UTF-8, read_cstring returns them and
\* leaves the cursor at e + 1.
C23_ReadsTextUpToNull ==
    (cstring.called /\ NullsFromStart # {} /\ ValidBeforeNull) =>
        /\ cstring.ok
        /\ cstring.string = BeforeNull
        /\ pos = FirstNull + 1

\* a second call has read a string of two bytes from right after the null byte of the
\* first
C23_Witness ==
    /\ cstring.called
    /\ cstring.ok
    /\ cstring.start > 0
    /\ file[cstring.start] = 0
    /\ Len(cstring.string) = 2
    /\ pos = cstring.start + 3

(***************************************************************************)
(* Claims about the run of VPK::read to its end (SpecRead)                 *)
(***************************************************************************)
\* the values of Error that VPK::read returns
LoadErrors ==
    {"InvalidSignature", "UnsupportedVersion", "HashSizeMismatch", "MalformedIndex",
     "ReadError(UnexpectedEof)", "ReadError(InvalidData)"}

\* the load has returned Ok or Err
Returned == pc = "done" /\ result \in {"Ok"} \cup LoadErrors

\* the load has ended, by a return or by a panic
Ended == pc = "done"

\* a step of the load: one made inside the tree loops moves the cursor forward unless
\* it ends the load with an error, by a record's 18 bytes too when it reads one
LoopTurn ==
    pc \in {"ext", "path", "name"} =>
        /\ pos' >= pos
        /\ (result' \in {"running", "Ok"}) => (pos' >= pos + 1)
        /\ (Len(parsed') > Len(parsed)) =>
              (pos' >= pos + Len(parsed'[Len(parsed')].name) + 1 + SIZE_OF_VPKDirectoryEntry)

\* the cursor moves forward in every turn of the loops and the load ends, by a return
\* or by a panic
LoadEnds == [][LoopTurn]_vars /\ <>Ended

\* C26: every turn of the extension, directory and filename loops that does not end
\* the load with an error moves the cursor forward, by the string and its null byte and
\* by the 18 bytes of a record read, the cursor never moves back while the tree is
\* parsed, and the load ends by returning Ok or Err.
C26_Terminates ==
    /\ [][LoopTurn]_vars
    /\ <>Returned

====
